---- MODULE Spec2Model ----
(***************************************************************************)
(* PiWAVPlayer (src/PiWAVPlayer.py): a WAV player object driven by control *)
(* threads (load / play / stop / set_volume / set_loop_mode / __del__) and *)
(* by the audio subsystem's thread, which invokes audio_stream_callback    *)
(* while an output stream is active.                                       *)
(*                                                                         *)
(* Handles are indices into `files` (wave.Wave_read objects) and `streams` *)
(* (pyaudio.Stream objects); 0 stands for None.  Volumes are in percent    *)
(* (100 is 1.0).  Every method is executed statement by statement: pc[t]   *)
(* is the position of thread t inside the method it is executing.          *)
(***************************************************************************)
EXTENDS Integers, Sequences, FiniteSets, TLC

\* ------------------------------------------------------------------ bounds
MaxFrames  == 2     \* a file holds 0..MaxFrames frames
MaxCount   == 2     \* the audio thread asks for 1..MaxCount frames
MaxStreams == 2     \* streams that are open or referred to at one time
MaxPos     == 3     \* callbacks are asked for while self._position stays
                    \* within MaxPos
MaxRaces   == 4     \* calls made in all when the two threads' calls overlap

\* ------------------------------------------------------- program constants
NoHandle   == 0      \* None, as the value of _audiostream / _filestream
FullVolume == 100    \* self._volume = 1
Sentinel   == -1     \* set_volume's return value for a rejected volume

Threads == {"main", "ui"}
Paths   == {"a.wav", "b.wav"}
\* set_volume's arguments: -0.1, 0.0, 0.5, 1.0, 1.1
VolumeInputs == {-10, 0, 50, 100, 110}
\* What wave.open(filename, 'rb') does: returns a reader, or raises.
OpenOutcomes == {"ok", "FileNotFoundError", "wave.Error", "EOFError"}

Min(a, b) == IF a < b THEN a ELSE b

\* ------------------------------------------------------------ file content
\* The 16-bit sample of frame i of a (mono) file.
SampleOf(i) ==
    CASE i = 0 -> -32768
      [] i = 1 -> 32767
      [] i = 2 -> -1
      [] OTHER -> 100 * i + 1

\* numpy's astype(np.int16) of an integer-valued result: wraps modulo 2^16.
AsInt16(x) == ((x + 32768) % 65536) - 32768

\* Truncation toward zero, as astype does to a float product.
Trunc(num, den) == IF num >= 0 THEN num \div den ELSE -((-num) \div den)

\* The same with an unsigned sample type.
ScaleSampleUnsigned(s, v) == Trunc(s * v, 100) % 65536

\* (audio_data * self._volume).astype(np.int16), one sample.
ScaleSample(s, v) == AsInt16(Trunc(s * v, 100))

\* ----------------------------------------------------------- return values
RetNone    == [k |-> "none", v |-> 0]
RetBool(b) == [k |-> "bool", v |-> IF b THEN 1 ELSE 0]
RetNum(n)  == [k |-> "num", v |-> n]

VARIABLES
    audiostream,   \* self._audiostream: a stream handle or NoHandle
    filestream,    \* self._filestream: a file handle or NoHandle
    filename,      \* self._filename
    is_loop,       \* self._is_loop
    volume,        \* self._volume, in percent
    position,      \* self._position
    logger,        \* whether self._logger is set
    terminated,    \* how many times self._p.terminate() ran
    files,         \* the Wave_read objects, by handle
    streams,       \* the pyaudio.Stream objects, by handle
    opened,        \* how many readers and streams were opened (2: several)
    misuse,        \* handles closed a second time
    pc,            \* per thread: position in the method being executed
    frame,         \* per thread: the running call's arguments and locals
    last,          \* the call that finished last: what it returned or raised
    cb,            \* the audio thread: position in audio_stream_callback
    cur,           \* the stream opened last, while it is open
    out,           \* frames returned by the callbacks of the open stream
    uniform,       \* frame_count of the open stream's callbacks: 0 before
                   \* the first, n while all asked for n, Mixed otherwise
    sessLoop,      \* loop flag over the open stream: "on", "off", "mixed"
    budget         \* calls left to the threads when their calls overlap

vars == <<audiostream, filestream, filename, is_loop, volume, position, logger,
          terminated, files, streams, opened, misuse, pc, frame, last, cb,
          cur, out, uniform, sessLoop, budget>>

player == <<audiostream, filestream, filename, is_loop, volume, position,
            logger, terminated>>
session == <<cur, out, uniform, sessLoop>>
handles == <<files, streams, opened, misuse>>

\* One reader exists at a time: the one self._filestream refers to.
Readers == {1}

\* A handle slot that holds no object.
FreeFile   == [st |-> "free", nframes |-> 0, pos |-> 0, seek |-> FALSE]
FreeStream == [st |-> "free", calls |-> 0]

\* A thread's call record while it is in no call.
NoFrame == [op |-> "", req |-> "", arg |-> "", s |-> NoHandle,
            intr |-> FALSE, log |-> {}]

NoLast == [op |-> "", ret |-> RetNone, fault |-> "", log |-> {},
           intr |-> FALSE]

\* The audio thread outside the callback.  Inside: the stream s it serves,
\* the frame_count n, and, once the callback has returned, the frames it
\* read, the bytes it returned (as samples) and the flag.
IdleCb == [pc |-> "idle", s |-> NoHandle, n |-> 0, frames |-> <<>>,
           data |-> <<>>, flag |-> ""]

Init ==
    /\ audiostream = NoHandle
    /\ filestream = NoHandle
    /\ filename = ""
    /\ is_loop = FALSE
    /\ volume = FullVolume
    /\ position = 0
    /\ logger = FALSE
    /\ terminated = 0
    /\ files = [h \in Readers |-> FreeFile]
    /\ streams = [h \in 1..MaxStreams |-> FreeStream]
    /\ opened = [files |-> 0, streams |-> 0]
    /\ misuse = {}
    /\ pc = [t \in Threads |-> "idle"]
    /\ frame = [t \in Threads |-> NoFrame]
    /\ last = NoLast
    /\ cb = IdleCb
    /\ cur = NoHandle
    /\ out = <<>>
    /\ uniform = 0
    /\ sessLoop = "off"
    /\ budget = MaxRaces

\* --------------------------------------------------- the wave reader
NewFile(n) == [st |-> "open", nframes |-> n, pos |-> 0, seek |-> FALSE]

\* The handle a new object gets: the lowest free slot of table tab.
FreeSlots(tab) == {h \in DOMAIN tab : tab[h].st = "free"}
NewHandle(tab) == CHOOSE h \in FreeSlots(tab) : \A g \in FreeSlots(tab) : h <= g

\* readframes that moves one frame too far.
ReadFramesSkipping(f, n) ==
    LET cnt == Min(n, f.nframes - f.pos)
    IN  IF f.seek /\ f.st # "open" THEN [ok |-> FALSE, data |-> <<>>, f |-> f]
        ELSE IF n = 0 \/ cnt <= 0
             THEN [ok |-> TRUE, data |-> <<>>, f |-> [f EXCEPT !.seek = FALSE]]
        ELSE IF f.st # "open" THEN [ok |-> FALSE, data |-> <<>>, f |-> f]
        ELSE [ok |-> TRUE,
              data |-> [j \in 1..cnt |-> f.pos + j - 1],
              f |-> [f EXCEPT !.pos = f.pos + cnt + 1, !.seek = FALSE]]

\* Wave_read.readframes(n) on reader f: the frames read (as frame indices)
\* and the reader afterwards; ok is FALSE when it raises ValueError, which a
\* closed reader does as soon as it has to seek or to read from the file.
ReadFrames(f, n) ==
    LET cnt == Min(n, f.nframes - f.pos)
    IN  IF f.seek /\ f.st # "open" THEN [ok |-> FALSE, data |-> <<>>, f |-> f]
        ELSE IF n = 0 \/ cnt = 0
             THEN [ok |-> TRUE, data |-> <<>>, f |-> [f EXCEPT !.seek = FALSE]]
        ELSE IF f.st # "open" THEN [ok |-> FALSE, data |-> <<>>, f |-> f]
        ELSE [ok |-> TRUE,
              data |-> [j \in 1..cnt |-> f.pos + j - 1],
              f |-> [f EXCEPT !.pos = f.pos + cnt, !.seek = FALSE]]

\* Wave_read.rewind()
Rewind(f) == [f EXCEPT !.pos = 0, !.seek = TRUE]

\* Wave_read.close()
CloseFile(f) == [f EXCEPT !.st = "closed"]

\* The readers once self._filestream stops referring to reader h: the reader
\* is finalised (Wave_read.__del__ closes it if it is still open) and gone.
Dropped(fs, h) ==
    IF h = NoHandle THEN fs ELSE [fs EXCEPT ![h] = FreeFile]

\* The wrap test of the callback.
Wraps(f, pos, n, loop) == pos + n > f.nframes /\ loop

\* A remainder that is one frame short.
RemainingShort(f, pos, n) == pos + n - f.nframes - 1

\* The number of frames the callback asks for after rewinding.
Remaining(f, pos, n) == pos + n - f.nframes

\* The callback's frame read: the data, the reader and self._position after
\* it; ok is FALSE when a read raised, which leaves self._position alone.
ReadBlock(f, pos, n, loop) ==
    IF Wraps(f, pos, n, loop)
    THEN LET r1 == ReadFrames(f, n)
             remaining == Remaining(f, pos, n)
             f2 == Rewind(r1.f)
             r2 == ReadFrames(f2, remaining)
         IN  IF ~r1.ok
             THEN [ok |-> FALSE, data |-> <<>>, f |-> r1.f, position |-> pos]
             ELSE IF ~r2.ok
             THEN [ok |-> FALSE, data |-> <<>>, f |-> r2.f, position |-> pos]
             ELSE [ok |-> TRUE, data |-> r1.data \o r2.data, f |-> r2.f,
                   position |-> remaining]
    ELSE LET r == ReadFrames(f, n)
         IN  IF ~r.ok
             THEN [ok |-> FALSE, data |-> <<>>, f |-> r.f, position |-> pos]
             ELSE [ok |-> TRUE, data |-> r.data, f |-> r.f,
                   position |-> pos + n]

\* np.frombuffer(data) * self._volume, back to bytes: the samples returned.
ScaleBuffer(data, v) == [j \in 1..Len(data) |-> ScaleSample(SampleOf(data[j]), v)]

\* --------------------------------------------------- the output stream
NewStream == [st |-> "active", calls |-> 0]

\* Stream.stop_stream() and Stream.is_active() raise OSError on a closed
\* stream.
StreamOpen(s) == s.st # "closed"
StopStream(s) == [s EXCEPT !.st = "stopped"]

\* is_active() of a wait loop that never sees the stream end.
IsActiveAlways(s) == TRUE

\* Stream.is_active()
IsActive(s) == s.st = "active"

\* close() that leaves the stream as it is.
CloseStreamKept(s) == s

\* Stream.close()
CloseStream(s) == [s EXCEPT !.st = "closed", !.calls = 0]

\* The streams once self._audiostream stops referring to stream h: a closed
\* stream is gone, any other stays with the audio subsystem.
DroppedStream(ss, h) ==
    IF h = NoHandle THEN ss
    ELSE IF ss[h].st = "closed" THEN [ss EXCEPT ![h] = FreeStream]
    ELSE ss

\* What PyAudio makes of a callback's return value (data, flag) for a request
\* of n frames: a flag that is no callback result aborts the stream, a buffer
\* shorter than n frames is padded and completes it.
AfterCallback(s, len, n, flag) ==
    IF flag # "paContinue" THEN [s EXCEPT !.st = "aborted"]
    ELSE IF len < n THEN [s EXCEPT !.st = "done"]
    ELSE s

\* One more, counting 0, 1, several.
Counted(k) == Min(k + 1, 2)

\* ------------------------------------------------------- call bookkeeping
\* if self._logger: self._logger.<level>(...), in the call record f.
Logged(f, msgs) == [f EXCEPT !.log = IF logger THEN @ \cup msgs ELSE @]

\* Thread t goes on to position l with call record f.
Goto(t, l, f) ==
    /\ pc' = [pc EXCEPT ![t] = l]
    /\ frame' = [frame EXCEPT ![t] = f]
    /\ UNCHANGED last

\* The call of thread t, with call record f, ends: it returns r, or raises e
\* (e # "").
Finish(t, r, e, f) ==
    /\ pc' = [pc EXCEPT ![t] = "idle"]
    /\ frame' = [frame EXCEPT ![t] = NoFrame]
    /\ last' = [op |-> f.op, ret |-> r, fault |-> e, log |-> f.log,
                intr |-> f.intr]

\* Thread t enters a public method.
Enter(t, op, req, arg, l) ==
    /\ pc[t] = "idle"
    /\ pc' = [pc EXCEPT ![t] = l]
    /\ frame' = [frame EXCEPT ![t] = [NoFrame EXCEPT !.op = op, !.req = req,
                                                     !.arg = arg]]
    /\ last' = NoLast

\* No new call starts once __del__ has been entered.
Alive == terminated = 0 /\ \A t \in Threads : frame[t].op # "del"

\* ------------------------------------------------------------------- load
CallLoad(t, path) ==
    /\ Alive
    /\ Enter(t, "load", "", path, "l_open")
    /\ UNCHANGED <<player, handles, cb, session>>

\* Which wave.open failures load's except clause catches.
LoadCatches(o) == o \in {"FileNotFoundError", "wave.Error"}

\* line 57: self._filestream = wave.open(filename, 'rb'), and the except
\* clause; inside play (line 113) a False result ends play at line 114.
LoadOpen(t) ==
    /\ pc[t] = "l_open"
    /\ \E o \in OpenOutcomes, n \in 0..MaxFrames :
         IF o = "ok"
         THEN LET fs == Dropped(files, filestream)
              IN  /\ FreeSlots(fs) # {}
                  /\ files' = [fs EXCEPT ![NewHandle(fs)] = NewFile(n)]
                  /\ filestream' = NewHandle(fs)
                  /\ opened' = [opened EXCEPT !.files = Counted(@)]
                  /\ Goto(t, "l_name", frame[t])
         ELSE /\ n = 0
              /\ UNCHANGED <<files, filestream, opened>>
              /\ IF LoadCatches(o)
                 THEN IF frame[t].op = "play"
                      THEN Finish(t, RetNone, "",
                                  Logged(frame[t], {"error: not loaded",
                                                    "error: corrupted"}))
                      ELSE Finish(t, RetBool(FALSE), "",
                                  Logged(frame[t], {"error: not loaded"}))
                 ELSE Finish(t, RetNone, o, frame[t])
    /\ UNCHANGED <<audiostream, filename, is_loop, volume, position, logger,
                   terminated, streams, misuse, cb, session>>

\* lines 58-59: self._filename = filename; return True
LoadName(t) ==
    /\ pc[t] = "l_name"
    /\ filename' = frame[t].arg
    /\ IF frame[t].op = "play"
       THEN Goto(t, "p_chk", frame[t])
       ELSE Finish(t, RetBool(TRUE), "", frame[t])
    /\ UNCHANGED <<audiostream, filestream, is_loop, volume, position, logger,
                   terminated, handles, cb, session>>

\* ------------------------------------------------------------------- play
CallPlay(t) ==
    /\ Alive
    /\ Enter(t, "play", "", "", "p_enter")
    /\ UNCHANGED <<player, handles, cb, session>>

\* lines 108-119: the loaded test, the implicit reload (whose steps are
\* LoadOpen and LoadName) and the test after it.
PlayCheck(t) ==
    /\ pc[t] \in {"p_enter", "p_name", "p_chk"}
    /\ CASE pc[t] = "p_enter" ->
              Goto(t, IF filestream = NoHandle THEN "p_name" ELSE "p_open",
                   frame[t])
         [] pc[t] = "p_name" ->
              IF filename = ""
              THEN Finish(t, RetNone, "", Logged(frame[t], {"error: no file"}))
              ELSE Goto(t, "l_open", [frame[t] EXCEPT !.arg = filename])
         [] pc[t] = "p_chk" ->
              IF filestream = NoHandle
              THEN Finish(t, RetNone, "",
                          Logged(frame[t], {"error: corrupted"}))
              ELSE Goto(t, "p_open", frame[t])
    /\ UNCHANGED <<player, handles, cb, session>>

\* What self._p.open(...) does: returns a started stream, or raises OSError.
DeviceOutcomes == {"ok", "OSError: device unavailable"}

\* lines 121-129: the assert and self._p.open(...); the new stream is not yet
\* stored in self._audiostream.
PlayOpen(t) ==
    /\ pc[t] = "p_open"
    /\ IF filestream = NoHandle
       THEN /\ Finish(t, RetNone, "AssertionError", frame[t])
            /\ UNCHANGED <<streams, opened, session>>
       ELSE \E d \in DeviceOutcomes :
              IF d = "ok"
              THEN /\ FreeSlots(streams) # {}
                   /\ streams' = [streams EXCEPT
                                    ![NewHandle(streams)] = NewStream]
                   /\ opened' = [opened EXCEPT !.streams = Counted(@)]
                   /\ cur' = NewHandle(streams)
                   /\ out' = <<>>
                   /\ uniform' = 0
                   /\ sessLoop' = IF is_loop THEN "on" ELSE "off"
                   /\ Goto(t, "p_assign",
                           [frame[t] EXCEPT !.s = NewHandle(streams)])
              ELSE /\ Finish(t, RetNone, d, frame[t])
                   /\ UNCHANGED <<streams, opened, session>>
    /\ UNCHANGED <<player, files, misuse, cb>>

\* lines 123 and 131-132: self._audiostream = <the stream>; the info line.
PlayAssign(t) ==
    /\ pc[t] = "p_assign"
    /\ audiostream' = frame[t].s
    /\ streams' = DroppedStream(streams, audiostream)
    /\ Goto(t, "p_wait", Logged([frame[t] EXCEPT !.s = NoHandle],
                                {"info: started"}))
    /\ UNCHANGED <<filestream, filename, is_loop, volume, position, logger,
                   terminated, files, opened, misuse, cb, session>>

\* line 135, left operand: while self._audiostream ...
PlayWait(t) ==
    /\ pc[t] = "p_wait"
    /\ Goto(t, IF audiostream = NoHandle THEN "p_stop" ELSE "p_active",
            frame[t])
    /\ UNCHANGED <<player, handles, cb, session>>

\* lines 135-136, right operand: ... and self._audiostream.is_active(), then
\* the sleep.  The attribute is read again: None has no is_active, and a
\* closed stream raises.
PlayActive(t) ==
    /\ pc[t] = "p_active"
    /\ IF audiostream = NoHandle
       THEN Finish(t, RetNone, "AttributeError", frame[t])
       ELSE IF ~StreamOpen(streams[audiostream])
       THEN Finish(t, RetNone, "OSError: stream closed", frame[t])
       ELSE Goto(t, IF IsActive(streams[audiostream]) THEN "p_wait"
                    ELSE "p_stop", frame[t])
    /\ UNCHANGED <<player, handles, cb, session>>

\* A wait loop without the except clause.
AfterInterruptRaise == "raise"

\* lines 137-138: where a KeyboardInterrupt raised in the wait loop continues
\* ("raise" would be: it leaves play).
AfterInterrupt == "p_stop"

\* A KeyboardInterrupt reaches the main thread inside the try block.
Interrupt(t) ==
    /\ t = "main"
    /\ pc[t] \in {"p_wait", "p_active"}
    /\ ~frame[t].intr
    /\ IF AfterInterrupt = "raise"
       THEN Finish(t, RetNone, "KeyboardInterrupt",
                   [frame[t] EXCEPT !.intr = TRUE])
       ELSE Goto(t, AfterInterrupt, [frame[t] EXCEPT !.intr = TRUE])
    /\ UNCHANGED <<player, handles, cb, session>>

\* line 139: self.stop(req_type='standart')
PlayStop(t) ==
    /\ pc[t] = "p_stop"
    /\ Goto(t, "s_chk", [frame[t] EXCEPT !.req = "standart"])
    /\ UNCHANGED <<player, handles, cb, session>>

\* ------------------------------------------------------------------- stop
CallStop(t) ==
    /\ Alive
    /\ Enter(t, "stop", "", "", "s_chk")
    /\ UNCHANGED <<player, handles, cb, session>>

\* Warnings switched off for every request type.
QuietAlways(req) == TRUE

\* lines 153 and 161: the request types that log no warning.
Quiet(req) == req \in {"standart", "terminate"}

\* lines 149 and 153-155: if self._audiostream: ... elif ...: warning
StopCheck(t) ==
    /\ pc[t] = "s_chk"
    /\ IF audiostream # NoHandle
       THEN Goto(t, "s_stopstream", frame[t])
       ELSE Goto(t, "s_file",
                 Logged(frame[t], IF Quiet(frame[t].req) THEN {}
                                  ELSE {"warning: nothing is playing"}))
    /\ UNCHANGED <<player, handles, cb, session>>

\* line 150: self._audiostream.stop_stream(), which returns once the audio
\* thread has left the callback.
StopStopStream(t) ==
    /\ pc[t] = "s_stopstream"
    /\ IF audiostream = NoHandle
       THEN /\ Finish(t, RetNone, "AttributeError", frame[t])
            /\ UNCHANGED streams
       ELSE IF ~StreamOpen(streams[audiostream])
       THEN /\ Finish(t, RetNone, "OSError: stream closed", frame[t])
            /\ UNCHANGED streams
       ELSE /\ ~(cb.pc # "idle" /\ cb.s = audiostream)
            /\ streams' = [streams EXCEPT ![audiostream] = StopStream(@)]
            /\ Goto(t, "s_close", frame[t])
    /\ UNCHANGED <<player, files, opened, misuse, cb, session>>

\* line 151: self._audiostream.close(); the history of the stream ends.
StopClose(t) ==
    /\ pc[t] = "s_close"
    /\ IF audiostream = NoHandle
       THEN /\ Finish(t, RetNone, "AttributeError", frame[t])
            /\ UNCHANGED <<streams, misuse, session>>
       ELSE /\ streams' = [streams EXCEPT ![audiostream] = CloseStream(@)]
            /\ misuse' = IF StreamOpen(streams[audiostream]) THEN misuse
                         ELSE misuse \cup {"stream closed twice"}
            /\ Goto(t, "s_clear", frame[t])
            /\ IF audiostream = cur
               THEN cur' = NoHandle /\ out' = <<>> /\ uniform' = 0
                    /\ sessLoop' = "off"
               ELSE UNCHANGED session
    /\ UNCHANGED <<player, files, opened, cb>>

\* line 152: self._audiostream = None
StopClear(t) ==
    /\ pc[t] = "s_clear"
    /\ audiostream' = NoHandle
    /\ streams' = DroppedStream(streams, audiostream)
    /\ Goto(t, "s_file", frame[t])
    /\ UNCHANGED <<filestream, filename, is_loop, volume, position, logger,
                   terminated, files, opened, misuse, cb, session>>

\* lines 157 and 161-163: if self._filestream: ... elif ...: warning
StopFileCheck(t) ==
    /\ pc[t] = "s_file"
    /\ IF filestream # NoHandle
       THEN Goto(t, "s_fclose", frame[t])
       ELSE Goto(t, "s_end",
                 Logged(frame[t], IF Quiet(frame[t].req) THEN {}
                                  ELSE {"warning: nothing is loaded"}))
    /\ UNCHANGED <<player, handles, cb, session>>

\* line 158: self._filestream.close()
StopFileClose(t) ==
    /\ pc[t] = "s_fclose"
    /\ IF filestream = NoHandle
       THEN /\ Finish(t, RetNone, "AttributeError", frame[t])
            /\ UNCHANGED <<files, misuse>>
       ELSE /\ files' = [files EXCEPT ![filestream] = CloseFile(@)]
            /\ misuse' = IF files[filestream].st = "open" THEN misuse
                         ELSE misuse \cup {"file closed twice"}
            /\ Goto(t, "s_fclear", frame[t])
    /\ UNCHANGED <<player, streams, opened, cb, session>>

\* A stop that leaves self._filestream referring to the closed reader.
StopFileClearKept(t) ==
    /\ pc[t] = "s_fclear"
    /\ Goto(t, "s_fname", frame[t])
    /\ UNCHANGED <<player, handles, cb, session>>

\* line 159: self._filestream = None
StopFileClear(t) ==
    /\ pc[t] = "s_fclear"
    /\ filestream' = NoHandle
    /\ files' = Dropped(files, filestream)
    /\ Goto(t, "s_fname", frame[t])
    /\ UNCHANGED <<audiostream, filename, is_loop, volume, position, logger,
                   terminated, streams, opened, misuse, cb, session>>

\* A stop that keeps the remembered filename.
StopFileNameKept(t) ==
    /\ pc[t] = "s_fname"
    /\ Goto(t, "s_end", frame[t])
    /\ UNCHANGED <<player, handles, cb, session>>

\* line 160: self._filename = ''
StopFileName(t) ==
    /\ pc[t] = "s_fname"
    /\ filename' = ""
    /\ Goto(t, "s_end", frame[t])
    /\ UNCHANGED <<audiostream, filestream, is_loop, volume, position, logger,
                   terminated, handles, cb, session>>

\* lines 165-167: the info line; stop returns, to __del__ when it called.
StopEnd(t) ==
    /\ pc[t] = "s_end"
    /\ LET f == Logged(frame[t], IF frame[t].req # "terminate"
                                 THEN {"info: stopped"} ELSE {})
       IN  IF frame[t].op = "del"
           THEN Goto(t, "d_term", f)
           ELSE Finish(t, RetNone, "", f)
    /\ UNCHANGED <<player, handles, cb, session>>

\* ---------------------------------------------------------------- __del__
\* line 229: self.stop(req_type='terminate')
CallDel(t) ==
    /\ Alive
    /\ Enter(t, "del", "terminate", "", "s_chk")
    /\ UNCHANGED <<player, handles, cb, session>>

\* line 230: self._p.terminate()
DelTerminate(t) ==
    /\ pc[t] = "d_term"
    /\ terminated' = terminated + 1
    /\ Finish(t, RetNone, "", frame[t])
    /\ UNCHANGED <<audiostream, filestream, filename, is_loop, volume,
                   position, logger, handles, cb, session>>

\* ---------------------------------------------------------------- setters
\* A one-statement method of thread t returns r, having logged msgs.
Atomic(t, op, r, msgs) ==
    /\ pc[t] = "idle"
    /\ last' = [op |-> op, ret |-> r, fault |-> "",
                log |-> IF logger THEN msgs ELSE {}, intr |-> FALSE]
    /\ UNCHANGED <<pc, frame>>

\* A range test that lets 1.1 through.
VolumeOkWide(v) == 0 <= v /\ v <= 110

\* line 179: the range test of set_volume.
VolumeOk(v) == 0 <= v /\ v <= 100

\* lines 179-184
SetVolume(t, v) ==
    /\ Alive
    /\ IF VolumeOk(v)
       THEN /\ volume' = v
            /\ Atomic(t, "set_volume", RetNum(v), {})
       ELSE /\ volume' = volume
            /\ Atomic(t, "set_volume", RetNum(Sentinel), {"warning: volume"})
    /\ UNCHANGED <<audiostream, filestream, filename, is_loop, position,
                   logger, terminated, handles, cb, session>>

\* lines 205-206
SetLoopMode(t, b) ==
    /\ Alive
    /\ is_loop' = b
    /\ Atomic(t, "set_loop_mode", RetBool(b), {})
    /\ sessLoop' = IF cur # NoHandle /\ b # is_loop THEN "mixed" ELSE sessLoop
    /\ UNCHANGED <<audiostream, filestream, filename, volume, position,
                   logger, terminated, handles, cb, cur, out, uniform>>

\* line 221; the logger is attached, if at all, before the player is used
\* (line 248).
SetLogger(t) ==
    /\ Alive
    /\ ~logger
    /\ opened = [files |-> 0, streams |-> 0]
    /\ logger' = TRUE
    /\ Atomic(t, "set_logger", RetNone, {})
    /\ UNCHANGED <<audiostream, filestream, filename, is_loop, volume,
                   position, terminated, handles, cb, session>>

\* ------------------------------------------------------- the audio thread
\* The value of uniform once two callbacks asked for different counts.
Mixed == MaxCount + 1

\* Callbacks per stream: enough for every non-looping session to reach its
\* short buffer (MaxFrames reads of one frame and the empty read after them).
MaxCalls == MaxFrames + 1

\* line 84: the audio thread enters audio_stream_callback for n frames on an
\* active stream; with no file the callback returns
\* (None, paCanNotReadFromACallbackStream) at line 99.
CallbackEnter(s, n) ==
    /\ cb.pc = "idle"
    /\ streams[s].st = "active"
    /\ streams[s].calls < MaxCalls
    /\ position + n <= MaxPos
    /\ streams' = [streams EXCEPT ![s].calls = @ + 1]
    /\ uniform' = IF s # cur THEN uniform
                  ELSE IF uniform \in {0, n} THEN n ELSE Mixed
    /\ cb' = IF filestream # NoHandle
             THEN [IdleCb EXCEPT !.pc = "run", !.s = s, !.n = n]
             ELSE [IdleCb EXCEPT !.pc = "ret", !.s = s, !.n = n,
                          !.flag = "paCanNotReadFromACallbackStream"]
    /\ UNCHANGED <<player, files, opened, misuse, pc, frame, last, cur, out,
                   sessLoop>>

\* lines 85-98: the frame read, the volume scaling and the return; an
\* exception (no reader any more, or a read of a closed one) leaves the
\* callback.
CallbackRun ==
    /\ cb.pc = "run"
    /\ IF filestream = NoHandle
       THEN /\ cb' = [cb EXCEPT !.pc = "ret", !.flag = "AttributeError"]
            /\ UNCHANGED <<files, position>>
       ELSE LET r == ReadBlock(files[filestream], position, cb.n, is_loop)
            IN  /\ files' = [files EXCEPT ![filestream] = r.f]
                /\ position' = r.position
                /\ cb' = IF r.ok
                         THEN [cb EXCEPT !.pc = "ret", !.frames = r.data,
                                   !.data = ScaleBuffer(r.data, volume),
                                   !.flag = "paContinue"]
                         ELSE [cb EXCEPT !.pc = "ret", !.flag = "ValueError"]
    /\ UNCHANGED <<audiostream, filestream, filename, is_loop, volume, logger,
                   terminated, streams, opened, misuse, pc, frame, last,
                   session>>

\* PyAudio takes the callback's result: the buffer goes to the device, and
\* the stream goes on, completes or aborts.
CallbackReturn ==
    /\ cb.pc = "ret"
    /\ streams' = [streams EXCEPT
         ![cb.s] = AfterCallback(@, Len(cb.data), cb.n, cb.flag)]
    /\ out' = IF cb.s = cur THEN out \o cb.frames ELSE out
    /\ cb' = IdleCb
    /\ UNCHANGED <<player, files, opened, misuse, pc, frame, last, cur,
                   uniform, sessLoop>>

\* ------------------------------------------------------------- scheduling
\* Calls that do not overlap.  play blocks the main thread, so the ui thread
\* makes its calls while the main thread is in play's wait loop, between two
\* polls of the stream.
Serial(t) == IF t = "main" THEN pc["ui"] = "idle" ELSE pc["main"] = "p_wait"

\* A call that may overlap the other thread's: one of MaxRaces.
Spend == budget > 0 /\ budget' = budget - 1

\* The main thread makes every call and the ui thread makes stop, __del__ and
\* set_loop_mode, one call at a time; the audio thread runs at any time.
Next ==
    \/ \E path \in Paths : Serial("main") /\ CallLoad("main", path) /\ UNCHANGED budget
    \/ Serial("main") /\ CallPlay("main") /\ UNCHANGED budget
    \/ \E t \in Threads : Serial(t) /\ CallStop(t) /\ UNCHANGED budget
    \/ \E t \in Threads : Serial(t) /\ CallDel(t) /\ UNCHANGED budget
    \/ \E v \in VolumeInputs : Serial("main") /\ SetVolume("main", v) /\ UNCHANGED budget
    \/ \E t \in Threads, b \in BOOLEAN : Serial(t) /\ SetLoopMode(t, b) /\ UNCHANGED budget
    \/ Serial("main") /\ SetLogger("main") /\ UNCHANGED budget
    \/ Serial("main") /\ Interrupt("main") /\ UNCHANGED budget
    \/ \E t \in Threads : Serial(t) /\ LoadOpen(t) /\ UNCHANGED budget
    \/ \E t \in Threads : Serial(t) /\ LoadName(t) /\ UNCHANGED budget
    \/ \E t \in Threads : Serial(t) /\ PlayCheck(t) /\ UNCHANGED budget
    \/ \E t \in Threads : Serial(t) /\ PlayOpen(t) /\ UNCHANGED budget
    \/ \E t \in Threads : Serial(t) /\ PlayAssign(t) /\ UNCHANGED budget
    \/ \E t \in Threads : Serial(t) /\ PlayWait(t) /\ UNCHANGED budget
    \/ \E t \in Threads : Serial(t) /\ PlayActive(t) /\ UNCHANGED budget
    \/ \E t \in Threads : Serial(t) /\ PlayStop(t) /\ UNCHANGED budget
    \/ \E t \in Threads : Serial(t) /\ StopCheck(t) /\ UNCHANGED budget
    \/ \E t \in Threads : Serial(t) /\ StopStopStream(t) /\ UNCHANGED budget
    \/ \E t \in Threads : Serial(t) /\ StopClose(t) /\ UNCHANGED budget
    \/ \E t \in Threads : Serial(t) /\ StopClear(t) /\ UNCHANGED budget
    \/ \E t \in Threads : Serial(t) /\ StopFileCheck(t) /\ UNCHANGED budget
    \/ \E t \in Threads : Serial(t) /\ StopFileClose(t) /\ UNCHANGED budget
    \/ \E t \in Threads : Serial(t) /\ StopFileClear(t) /\ UNCHANGED budget
    \/ \E t \in Threads : Serial(t) /\ StopFileName(t) /\ UNCHANGED budget
    \/ \E t \in Threads : Serial(t) /\ StopEnd(t) /\ UNCHANGED budget
    \/ \E t \in Threads : Serial(t) /\ DelTerminate(t) /\ UNCHANGED budget
    \/ \E s \in 1..MaxStreams, n \in 1..MaxCount : CallbackEnter(s, n) /\ UNCHANGED budget
    \/ CallbackRun /\ UNCHANGED budget
    \/ CallbackReturn /\ UNCHANGED budget

Spec == Init /\ [][Next]_vars

\* The two control threads interleave statement by statement: load and play
\* on the main thread, stop, load and __del__ on the ui thread.
NextConc ==
    \/ \E t \in Threads, path \in Paths : CallLoad(t, path) /\ Spend
    \/ CallPlay("main") /\ Spend
    \/ CallStop("ui") /\ Spend
    \/ CallDel("ui") /\ Spend
    \/ \E t \in Threads : LoadOpen(t) /\ UNCHANGED budget
    \/ \E t \in Threads : LoadName(t) /\ UNCHANGED budget
    \/ \E t \in Threads : PlayCheck(t) /\ UNCHANGED budget
    \/ \E t \in Threads : PlayOpen(t) /\ UNCHANGED budget
    \/ \E t \in Threads : PlayAssign(t) /\ UNCHANGED budget
    \/ \E t \in Threads : PlayWait(t) /\ UNCHANGED budget
    \/ \E t \in Threads : PlayActive(t) /\ UNCHANGED budget
    \/ \E t \in Threads : PlayStop(t) /\ UNCHANGED budget
    \/ \E t \in Threads : StopCheck(t) /\ UNCHANGED budget
    \/ \E t \in Threads : StopStopStream(t) /\ UNCHANGED budget
    \/ \E t \in Threads : StopClose(t) /\ UNCHANGED budget
    \/ \E t \in Threads : StopClear(t) /\ UNCHANGED budget
    \/ \E t \in Threads : StopFileCheck(t) /\ UNCHANGED budget
    \/ \E t \in Threads : StopFileClose(t) /\ UNCHANGED budget
    \/ \E t \in Threads : StopFileClear(t) /\ UNCHANGED budget
    \/ \E t \in Threads : StopFileName(t) /\ UNCHANGED budget
    \/ \E t \in Threads : StopEnd(t) /\ UNCHANGED budget
    \/ \E t \in Threads : DelTerminate(t) /\ UNCHANGED budget
    \/ \E s \in 1..MaxStreams, n \in 1..MaxCount : CallbackEnter(s, n) /\ UNCHANGED budget
    \/ CallbackRun /\ UNCHANGED budget
    \/ CallbackReturn /\ UNCHANGED budget

SpecConc == Init /\ [][NextConc]_vars

\* ------------------------------------------------------------- progress
\* One step of thread t inside the method it is executing.
Statement(t) ==
    \/ LoadOpen(t) \/ LoadName(t)
    \/ PlayCheck(t) \/ PlayOpen(t) \/ PlayAssign(t) \/ PlayWait(t)
    \/ PlayActive(t) \/ PlayStop(t)
    \/ StopCheck(t) \/ StopStopStream(t) \/ StopClose(t) \/ StopClear(t)
    \/ StopFileCheck(t) \/ StopFileClose(t) \/ StopFileClear(t)
    \/ StopFileName(t) \/ StopEnd(t)

\* The main thread goes on with the call it is in.
MainRuns == Statement("main") /\ UNCHANGED budget

\* The audio thread asks for frames while a stream is active, and finishes
\* the callback it is in.
AudioRuns ==
    /\ \/ \E s \in 1..MaxStreams, n \in 1..MaxCount : CallbackEnter(s, n)
       \/ CallbackRun
       \/ CallbackReturn
    /\ UNCHANGED budget

\* The main thread loads files and plays, looping off throughout; play is
\* called while no stream has been opened yet, so that the cursor, which
\* nothing resets, is still within MaxPos during the session.
NextLive ==
    \/ \E path \in Paths : CallLoad("main", path) /\ UNCHANGED budget
    \/ CallPlay("main") /\ opened.streams = 0 /\ UNCHANGED budget
    \/ LoadOpen("main") /\ UNCHANGED budget
    \/ LoadName("main") /\ UNCHANGED budget
    \/ PlayCheck("main") /\ UNCHANGED budget
    \/ PlayOpen("main") /\ UNCHANGED budget
    \/ PlayAssign("main") /\ UNCHANGED budget
    \/ PlayWait("main") /\ UNCHANGED budget
    \/ PlayActive("main") /\ UNCHANGED budget
    \/ PlayStop("main") /\ UNCHANGED budget
    \/ StopCheck("main") /\ UNCHANGED budget
    \/ StopStopStream("main") /\ UNCHANGED budget
    \/ StopClose("main") /\ UNCHANGED budget
    \/ StopClear("main") /\ UNCHANGED budget
    \/ StopFileCheck("main") /\ UNCHANGED budget
    \/ StopFileClose("main") /\ UNCHANGED budget
    \/ StopFileClear("main") /\ UNCHANGED budget
    \/ StopFileName("main") /\ UNCHANGED budget
    \/ StopEnd("main") /\ UNCHANGED budget
    \/ \E s \in 1..MaxStreams, n \in 1..MaxCount : CallbackEnter(s, n) /\ UNCHANGED budget
    \/ CallbackRun /\ UNCHANGED budget
    \/ CallbackReturn /\ UNCHANGED budget

\* A running thread keeps running: the main thread is not starved inside a
\* call, and the audio thread keeps serving an active stream.
SpecLive ==
    Init /\ [][NextLive]_vars /\ WF_vars(MainRuns) /\ WF_vars(AudioRuns)

\* ------------------------------------------------------- volume scaling
\* Lines 96-98 on their own.  The buffers read from the file are given as
\* samples: the empty buffer, every buffer of one signed 16-bit sample, and
\* the buffers of two samples out of a few.
Int16 == -32768..32767
FewSamples == {-32768, -1, 0, 1, 32767}
ScaleInputs ==
    {<<>>} \cup {<<x>> : x \in Int16}
           \cup {<<x, y>> : x \in FewSamples, y \in FewSamples}

\* The callback has read cb.data and the volume is any accepted one.
InitScale ==
    /\ audiostream = NoHandle
    /\ filestream = NoHandle
    /\ filename = ""
    /\ is_loop = FALSE
    /\ volume \in {v \in VolumeInputs : VolumeOk(v)}
    /\ position = 0
    /\ logger = FALSE
    /\ terminated = 0
    /\ files = [h \in Readers |-> FreeFile]
    /\ streams = [h \in 1..MaxStreams |-> FreeStream]
    /\ opened = [files |-> 0, streams |-> 0]
    /\ misuse = {}
    /\ pc = [t \in Threads |-> "idle"]
    /\ frame = [t \in Threads |-> NoFrame]
    /\ last = NoLast
    /\ cb \in {[IdleCb EXCEPT !.pc = "scale", !.data = d] : d \in ScaleInputs}
    /\ cur = NoHandle
    /\ out = <<>>
    /\ uniform = 0
    /\ sessLoop = "off"
    /\ budget = 0

\* lines 96-98: the buffer returned for the data read, in out.
Scaling ==
    /\ cb.pc = "scale"
    /\ out' = [j \in 1..Len(cb.data) |-> ScaleSample(cb.data[j], volume)]
    /\ cb' = [cb EXCEPT !.pc = "scaled"]
    /\ UNCHANGED <<player, handles, pc, frame, last, cur, uniform, sessLoop,
                   budget>>

NextScale == Scaling

SpecScale == InitScale /\ [][NextScale]_vars

\* ------------------------------------------------------------- properties
\* The player refers to no stream, to no file and remembers no filename.
Quiescent == audiostream = NoHandle /\ filestream = NoHandle /\ filename = ""

\* No reader is open and every stream that was opened has been closed.
Released ==
    /\ \A h \in DOMAIN files : files[h].st # "open"
    /\ \A h \in DOMAIN streams : streams[h].st \in {"free", "closed"}

\* The open stream's session has no callback under way.
BetweenCallbacks == cb.pc = "idle" \/ cb.s # cur

\* C1: with looping off for the whole session, the buffers returned by the
\* callbacks of a session are file frames 0, 1, 2, ... in order, and once the
\* first short buffer has been returned (the stream is done) they are exactly
\* frames 0..total_frames-1, so their frame counts sum to total_frames.
C1_NoLoopPlaysFileOnce ==
    (cur # NoHandle /\ sessLoop = "off" /\ filestream # NoHandle) =>
        /\ \A i \in 1..Len(out) : out[i] = i - 1
        /\ Len(out) <= files[filestream].nframes
        /\ streams[cur].st = "done" =>
               out = [i \in 1..files[filestream].nframes |-> i - 1]

\* A session without looping over a file of MaxFrames frames has ended with
\* its short buffer, after requests of different sizes.
C1_Witness ==
    /\ cur # NoHandle /\ sessLoop = "off" /\ filestream # NoHandle
    /\ streams[cur].st = "done"
    /\ files[filestream].nframes = MaxFrames
    /\ Len(out) = MaxFrames
    /\ uniform = Mixed

\* C2: with looping on for the whole session and volume 1, on a new player,
\* k callbacks of n frames each (k*n > total_frames >= 1) return k*n frames,
\* the i-th of which (from 0) is file frame i mod total_frames.
C2_LoopReadsModulo ==
    ( /\ cur # NoHandle /\ sessLoop = "on" /\ filestream # NoHandle
      /\ volume = FullVolume
      /\ opened = [files |-> 1, streams |-> 1]
      /\ BetweenCallbacks
      /\ uniform \in 1..MaxCount
      /\ files[filestream].nframes >= 1
      /\ streams[cur].calls * uniform > files[filestream].nframes ) =>
        /\ Len(out) = streams[cur].calls * uniform
        /\ \A i \in 1..Len(out) :
               out[i] = (i - 1) % files[filestream].nframes

\* C3: set_volume(v) with v outside [0,1] returns -1, raises nothing and
\* leaves the volume as it was; with v in [0,1] it stores v and returns v;
\* the stored volume is in [0,1] in every state.
C3_SetVolumeRange ==
    [][ /\ volume' \in 0..FullVolume
        /\ \A v \in VolumeInputs :
             SetVolume("main", v) =>
                 /\ last'.fault = ""
                 /\ IF v \in 0..FullVolume
                    THEN volume' = v /\ last'.ret = RetNum(v)
                    ELSE volume' = volume /\ last'.ret = RetNum(Sentinel) ]_vars

\* set_volume(1.1) or set_volume(-0.1) has been rejected while the volume
\* was 0.5.
C3_Witness ==
    last.op = "set_volume" /\ last.ret = RetNum(Sentinel) /\ volume = 50

\* The state after thread t's step inside stop, when stop finds nothing to
\* stop in a quiescent state: nothing changed, no fault, and the warnings
\* are logged exactly for the explicit request type.
C4_QuiescentStep(t) ==
    LET explicit == frame[t].req = ""
        log == IF pc'[t] = "idle" THEN last'.log ELSE frame'[t].log
    IN  /\ UNCHANGED <<audiostream, filestream, filename, is_loop, volume,
                       position, logger, files, streams>>
        /\ pc'[t] = "idle" => last'.fault = ""
        /\ frame[t].log \subseteq log
        /\ (logger /\ pc[t] = "s_chk") =>
               ("warning: nothing is playing" \in log <=> explicit)
        /\ (logger /\ pc[t] = "s_file") =>
               ("warning: nothing is loaded" \in log <=> explicit)

\* C4: an explicit stop() from any state ends without fault in a quiescent
\* state with nothing left open; a stop that starts in a quiescent state (a
\* second stop) changes nothing, raises nothing and logs both warnings,
\* unless its request type is 'standart' or 'terminate', which log none.
C4_StopTwice ==
    [][ /\ (last'.op = "stop") =>
               (last'.fault = "" /\ Quiescent' /\ Released')
        /\ \A t \in Threads :
             (pc[t] \in {"s_chk", "s_file", "s_end"} /\ pc'[t] # pc[t]
              /\ Quiescent) => C4_QuiescentStep(t) ]_vars

\* An explicit stop() that found nothing to stop has returned, with both
\* warnings in the log.
C4_Witness ==
    /\ last.op = "stop" /\ last.fault = ""
    /\ {"warning: nothing is playing", "warning: nothing is loaded"}
           \subseteq last.log

\* C5: __del__ from any state ends without fault with the stream stopped and
\* closed, the file closed, the filename empty and the device released
\* exactly once; nothing stays open.
C5_DelReleasesAll ==
    /\ terminated <= 1
    /\ last.op = "del" => (last.fault = "" /\ terminated = 1)
    /\ terminated = 1 => (Quiescent /\ Released)

\* __del__ has run on the ui thread while the main thread was in play's wait
\* loop and callbacks had been served.
C5_Witness ==
    /\ last.op = "del" /\ terminated = 1
    /\ pc["main"] = "p_wait"
    /\ position > 0

\* What a call that fails to start must leave alone.
Untouched ==
    UNCHANGED <<audiostream, filestream, filename, position, volume, is_loop>>

\* C6: a load that fails (wave.open raises: the step from the open that ends
\* the call) returns False, raises nothing and leaves the file handle, the
\* filename, the stream, the cursor, the volume and the loop flag alone.
C6_FailedLoad ==
    [][ \A t \in Threads :
          (pc[t] = "l_open" /\ frame[t].op = "load" /\ pc'[t] = "idle") =>
              /\ last'.fault = ""
              /\ last'.ret = RetBool(FALSE)
              /\ Untouched ]_vars

\* C7: a play that cannot start (no file and no filename, a failed implicit
\* reload, or a device that does not open the stream: the steps that end
\* play before a stream exists) returns without fault and leaves the
\* handles, the filename, the cursor, the volume and the loop flag alone.
C7_PlayCannotStart ==
    [][ \A t \in Threads :
          (frame[t].op = "play" /\ pc'[t] = "idle"
           /\ pc[t] \in {"p_name", "l_open", "p_chk", "p_open"}) =>
              /\ last'.fault = ""
              /\ Untouched ]_vars

\* C8: a KeyboardInterrupt in play's wait loop is caught: play returns
\* without fault, in the state an explicit stop() leaves (no stream, no file,
\* no filename, nothing left open).
C8_InterruptStops ==
    (last.op = "play" /\ last.intr) =>
        (last.fault = "" /\ Quiescent /\ Released)

\* play has returned after a KeyboardInterrupt that came while callbacks had
\* been served.
C8_Witness ==
    last.op = "play" /\ last.intr /\ last.fault = "" /\ position > 0

\* C9: when stop() runs on another thread while play() waits, neither call
\* ends with a fault from a stream handle the other thread cleared or
\* closed.
C9_StopFromOtherThread ==
    last.op \in {"play", "stop"} =>
        last.fault \notin {"AttributeError", "OSError: stream closed"}

\* C10: in every state, intermediate states of overlapping calls included,
\* self._audiostream is not None only while self._filestream is not None.
C10_PlayingImpliesLoaded ==
    audiostream # NoHandle => filestream # NoHandle

\* A stream that is not closed is still referred to: by self._audiostream, or
\* by the play that has opened it and not yet stored it.
NoStrayStream ==
    \A h \in DOMAIN streams :
        streams[h].st \in {"free", "closed"}
        \/ h = audiostream
        \/ \E t \in Threads : frame[t].s = h

C12_PlayCompletes ==
    /\ [](pc["main"] = "idle" /\ last.op = "play" /\ opened.streams > 0
            => last.fault = "" /\ Quiescent /\ Released)
    /\ (pc["main"] = "p_assign")
         ~> (pc["main"] = "idle" /\ last.op = "play" /\ last.fault = ""
             /\ Quiescent /\ Released)

\* play has returned after a session that served every frame of a file of
\* MaxFrames frames.
C12_Witness ==
    /\ pc["main"] = "idle" /\ last.op = "play" /\ opened.streams > 0
    /\ position > MaxFrames

\* C13: the buffer returned by the volume scaling has as many samples as the
\* data read; at volume 1.0 it equals the data read, sample for sample, and
\* at volume 0.0 every sample of it is 0.
C13_VolumeScaling ==
    cb.pc = "scaled" =>
        /\ Len(out) = Len(cb.data)
        /\ volume = FullVolume => out = cb.data
        /\ volume = 0 => \A j \in 1..Len(out) : out[j] = 0

\* The most negative sample has been scaled at volume 1.0.
C13_Witness ==
    cb.pc = "scaled" /\ volume = FullVolume /\ cb.data = <<-32768>>

\* C14: whenever a file (of at least one frame) is loaded, the cursor is
\* within the file: 0 <= self._position <= total_frames.
C14_CursorWithinFile ==
    (filestream # NoHandle /\ files[filestream].nframes >= 1) =>
        (0 <= position /\ position <= files[filestream].nframes)

\* C15: when load has returned True the cursor is 0, also on a player that
\* has played an earlier file.
C15_LoadResetsCursor ==
    (last.op = "load" /\ last.ret = RetBool(TRUE)) => position = 0

\* The first session of a new player is looping, no callback is under way,
\* and all its callbacks so far asked for the same number of frames, at most
\* total_frames.
LoopingEvenly ==
    /\ cur # NoHandle /\ sessLoop = "on" /\ filestream # NoHandle
    /\ opened = [files |-> 1, streams |-> 1]
    /\ BetweenCallbacks
    /\ uniform \in 1..MaxCount
    /\ uniform <= files[filestream].nframes

C17_FramesReturned ==
    [][ ( /\ cb.pc = "run" /\ cb'.pc = "ret" /\ cb'.flag = "paContinue"
          /\ filestream # NoHandle
          /\ files[filestream].nframes >= 1 ) =>
            Len(cb'.frames) =
                IF is_loop THEN cb.n
                ELSE Min(cb.n, files[filestream].nframes
                                 - files[filestream].pos) ]_vars

\* C18: a callback that has found a file reads from a reader that is there
\* and open until the callback has read, and a callback ends either with
\* frames read (paContinue) or, with no file loaded, with the stream-error
\* signal, never with an exception from an absent or closed reader.
C18_CallbackReadsOpenFile ==
    /\ cb.pc = "run" =>
           (filestream # NoHandle /\ files[filestream].st = "open")
    /\ cb.pc = "ret" =>
           cb.flag \in {"paContinue", "paCanNotReadFromACallbackStream"}

\* The player holds a reader and the reader is open.
FileOpen == filestream # NoHandle /\ files[filestream].st = "open"

\* Thread t is between the statements of load or of stop that change the
\* file handle and the filename one after the other.
MidUpdate(t) == pc[t] \in {"l_name", "s_fclear", "s_fname"}

\* C19: with non-overlapping calls, outside the statement pairs of load and
\* stop that update them, a file is open if and only if the remembered
\* filename is non-empty; so play never takes the implicit-reload branch, and
\* a play that finds no file (after a stop or after natural completion, with
\* no new load) opens no stream: a play that opens one has a file and a name.
C19_FileIffName ==
    /\ (\A t \in Threads : ~MidUpdate(t)) => (FileOpen <=> filename # "")
    /\ \A t \in Threads :
         /\ frame[t].op = "play" => pc[t] \notin {"l_open", "l_name", "p_chk"}
         /\ pc[t] \in {"p_open", "p_assign"} => (FileOpen /\ filename # "")

\* A play called after a session has completed, with no new load, has
\* returned without a stream: every stream opened so far is closed and the
\* player holds no file.
C19_Witness ==
    /\ last.op = "play" /\ last.fault = "" /\ pc["main"] = "idle"
    /\ "error: no file" \in last.log
    /\ opened.streams >= 1 /\ opened.files >= 1
    /\ Quiescent /\ Released

\* C20: when a callback starts on a loaded file, self._position equals the
\* reader's read offset in frames.
C20_CursorIsReadOffset ==
    (cb.pc = "run" /\ FileOpen) => position = files[filestream].pos

====
